---- MODULE Spec2Model ----
(***************************************************************************)
(* Storage node of the distributed file store (src/s2.c, the PDF node S2,  *)
(* and src/unnamed/part_000, the ZIP node S4).                             *)
(*                                                                         *)
(* Strings are sequences of one-character strings, so that the C string    *)
(* code (strtok, strrchr, pointer + 3, snprintf, strncat, basename) is     *)
(* modelled by what it does.  The filesystem is a function from canonical  *)
(* paths (sequences of names) to nodes, and the system calls resolve a     *)
(* path string against it as the kernel does.  Every worker is a forked    *)
(* process that advances one system call at a time.                        *)
(***************************************************************************)
EXTENDS Integers, Sequences, FiniteSets, TLC

\* ------------------------------------------------------------------ bounds
MaxConns == 2        \* connections the gateway opens in one behaviour

\* ------------------------------------------------------- program constants
BUFFER_SIZE == 1024
MAX_PATH_LEN == 1024
SIZEOF_OFF_T == 8

\* --------------------------------------------------------------- C strings
Min(a, b) == IF a < b THEN a ELSE b

SetMax(S) == CHOOSE x \in S : \A y \in S : y <= x

SetMin(S) == CHOOSE x \in S : \A y \in S : x <= y

Take(s, n) == SubSeq(s, 1, Min(Len(s), n))

Drop(s, n) == SubSeq(s, n + 1, Len(s))

EndsWith(s, suf) ==
    /\ Len(s) >= Len(suf)
    /\ SubSeq(s, Len(s) - Len(suf) + 1, Len(s)) = suf

\* snprintf(dst, size, "%s...", ...): the formatted text cut to size-1 bytes
Snprintf(size, text) == Take(text, size - 1)

\* strrchr(s, c): index of the last c in s, 0 for NULL
StrRChr(s, c) ==
    LET I == {i \in 1..Len(s) : s[i] = c}
    IN IF I = {} THEN 0 ELSE SetMax(I)

\* the maximal runs of non-delimiter characters of s, in order
TokStarts(s, d) == {i \in 1..Len(s) : s[i] # d /\ (i = 1 \/ s[i-1] = d)}

TokEnd(s, d, i) == SetMin({j \in i..Len(s) : j = Len(s) \/ s[j+1] = d})

RECURSIVE TokensFrom(_, _, _)
TokensFrom(s, d, starts) ==
    IF starts = {} THEN <<>>
    ELSE LET i == SetMin(starts)
         IN <<SubSeq(s, i, TokEnd(s, d, i))>> \o TokensFrom(s, d, starts \ {i})

\* strtok(buffer, " ") followed by strtok(NULL, " ") ...: the k-th call
\* returns the k-th token, NULL (here: absent) when there is none
StrTok(s, d) == TokensFrom(s, d, TokStarts(s, d))

\* basename() of <libgen.h> for a string that does not end in '/'
Basename(s) ==
    LET i == StrRChr(s, "/")
    IN IF s = <<>> THEN <<".">> ELSE Drop(s, i)

\* p + 3 for a char *p holding at least three characters
Plus3(s) == Drop(s, 3)

Rep(c, n) == [i \in 1..n |-> c]

\* -------------------------------------------------------------- filesystem
\* A canonical path is a sequence of names; <<>> is "/".
DirStSizes == {0, 4096}          \* st_size the filesystem reports for a directory

DirNode == [kind |-> "dir", id |-> 0, len |-> 0]

FileNode(id, len) == [kind |-> "file", id |-> id, len |-> len]

Cwd == <<>>                      \* working directory of the server process

Parent(p) == IF p = <<>> THEN <<>> ELSE SubSeq(p, 1, Len(p) - 1)

IsPrefix(p, q) == Len(p) <= Len(q) /\ SubSeq(q, 1, Len(p)) = p

Exists(f, p) == p \in DOMAIN f

IsDir(f, p) == p \in DOMAIN f /\ f[p].kind = "dir"

IsReg(f, p) == p \in DOMAIN f /\ f[p].kind = "file"

\* kernel path walk: every component that is stepped through must be an
\* existing directory; "." stays, ".." goes to the parent ("/.." is "/")
RECURSIVE Walk(_, _, _)
Walk(f, cur, comps) ==
    IF comps = <<>> THEN [err |-> "OK", at |-> cur]
    ELSE IF ~Exists(f, cur) THEN [err |-> "ENOENT", at |-> cur]
    ELSE IF ~IsDir(f, cur) THEN [err |-> "ENOTDIR", at |-> cur]
    ELSE LET c == Head(comps)
         IN IF c = <<".">> THEN Walk(f, cur, Tail(comps))
            ELSE IF c = <<".", ".">> THEN Walk(f, Parent(cur), Tail(comps))
            ELSE Walk(f, cur \o <<c>>, Tail(comps))

Resolve(f, s) ==
    IF s = <<>> THEN [err |-> "ENOENT", at |-> <<>>, slash |-> FALSE]
    ELSE LET w == Walk(f, IF s[1] = "/" THEN <<>> ELSE Cwd, StrTok(s, "/"))
         IN [err |-> w.err, at |-> w.at, slash |-> s[Len(s)] = "/"]

\* stat(2) and open(2) with O_RDONLY: 0 or the errno
StatErr(f, s) ==
    LET r == Resolve(f, s)
    IN IF r.err # "OK" THEN r.err
       ELSE IF ~Exists(f, r.at) THEN "ENOENT"
       ELSE IF r.slash /\ ~IsDir(f, r.at) THEN "ENOTDIR"
       ELSE "OK"

Lookup(f, s) == f[Resolve(f, s).at]

\* mkdir(2)
MkdirErr(f, s) ==
    LET r == Resolve(f, s)
    IN IF r.err # "OK" THEN r.err
       ELSE IF Exists(f, r.at) THEN "EEXIST"
       ELSE "OK"

MkdirFs(f, s) ==
    LET at == Resolve(f, s).at
    IN [p \in DOMAIN f \cup {at} |-> IF p = at THEN DirNode ELSE f[p]]

\* unlink(2)
UnlinkErr(f, s) ==
    LET r == Resolve(f, s)
    IN IF r.err # "OK" THEN r.err
       ELSE IF ~Exists(f, r.at) THEN "ENOENT"
       ELSE IF IsDir(f, r.at) THEN "EISDIR"
       ELSE IF r.slash THEN "ENOTDIR"
       ELSE "OK"

\* (fault) the files next to the one named go as well
UnlinkFs_siblings(f, s) ==
    LET at == Resolve(f, s).at
    IN [p \in {q \in DOMAIN f : ~(IsReg(f, q) /\ Parent(q) = Parent(at))} |-> f[p]]

UnlinkFs(f, s) ==
    LET at == Resolve(f, s).at
    IN [p \in DOMAIN f \ {at} |-> f[p]]

\* rename(2)
Subtree(f, p) == {q \in DOMAIN f : IsPrefix(p, q)}

RenameErr(f, old, new) ==
    LET o == Resolve(f, old)
        n == Resolve(f, new)
    IN IF o.err # "OK" THEN o.err
       ELSE IF ~Exists(f, o.at) THEN "ENOENT"
       ELSE IF o.slash /\ ~IsDir(f, o.at) THEN "ENOTDIR"
       ELSE IF n.err # "OK" THEN n.err
       ELSE IF o.at = n.at THEN "OK"
       ELSE IF IsDir(f, o.at) /\ IsPrefix(o.at, n.at) THEN "EINVAL"
       ELSE IF IsDir(f, o.at) /\ IsReg(f, n.at) THEN "ENOTDIR"
       ELSE IF IsDir(f, o.at) /\ Subtree(f, n.at) \ {n.at} # {} THEN "ENOTEMPTY"
       ELSE IF IsReg(f, o.at) /\ IsDir(f, n.at) THEN "EISDIR"
       ELSE IF IsReg(f, o.at) /\ n.slash THEN "ENOTDIR"
       ELSE "OK"

RenameFs(f, old, new) ==
    LET o == Resolve(f, old).at
        n == Resolve(f, new).at
        moved == Subtree(f, o)
        keep == (DOMAIN f \ moved) \ Subtree(f, n)
        To(q) == n \o SubSeq(q, Len(o) + 1, Len(q))
    IN IF o = n THEN f
       ELSE [p \in keep \cup {To(q) : q \in moved} |->
                IF p \in keep THEN f[p]
                ELSE f[CHOOSE q \in moved : To(q) = p]]

\* ------------------------------------------------------- node parameters
Nodes == {"S2", "S4"}

\* the owned extension: ".pdf" in s2.c, ".zip" in part_000
Ext(nd) == IF nd = "S2" THEN <<".", "p", "d", "f">> ELSE <<".", "z", "i", "p">>

RootName(nd) == IF nd = "S2" THEN <<"S", "2">> ELSE <<"S", "4">>

Home == <<"/", "h", "o", "m", "e", "/", "u", "s", "e", "r">>   \* getenv("HOME")

HomeDir == <<<<"h", "o", "m", "e">>, <<"u", "s", "e", "r">>>>

\* "%s/S2" of getenv("HOME")
StorageRoot(nd) == Home \o <<"/">> \o RootName(nd)

RootDir(nd) == HomeDir \o <<RootName(nd)>>

TmpDir == <<<<"t", "m", "p">>>>

TarName == <<"p", "d", "f", "f", "i", "l", "e", "s", ".", "t", "a", "r">>

TAR_PATH == <<"/", "t", "m", "p", "/">> \o TarName      \* "/tmp/pdffiles.tar"

MARKER == <<"~", "S", "1">>

\* strrchr(name, '.') and strcmp(ext, ".pdf") == 0
HasExt(name, ext) ==
    LET i == StrRChr(name, ".")
    IN i # 0 /\ Drop(name, i - 1) = ext

\* (fault) any extension passes
UploadExtOk_anydot(filename, nd) == StrRChr(filename, ".") # 0

\* (fault) the ZIP node checks for ".pdf" as well
UploadExtOk_pdf(filename, nd) == HasExt(filename, Ext("S2"))

\* upload_file: ext == NULL || strcmp(ext, ".pdf") != 0 rejects
UploadExtOk(filename, nd) == HasExt(filename, Ext(nd))

\* (fault) any extension is listed
ListExtOk_anydot(d_name, ext) == StrRChr(d_name, ".") # 0

\* list_pdf_files: ext && strcmp(ext, ".pdf") == 0
ListExtOk(d_name, ext) == HasExt(d_name, ext)

\* ---------------------------------------------------------------- replies
\* A reply is the sequence of the segments written to the socket: n bytes of
\* a string literal, the sizeof(off_t) bytes of a size, n bytes of the file
\* with content id from offset off, or the bytes of the listing buffer.
TextErr(msg, n) == [t |-> "text", err |-> TRUE, msg |-> msg, n |-> n]

TextOk(msg, n) == [t |-> "text", err |-> FALSE, msg |-> msg, n |-> n]

SizeSeg(v) == [t |-> "size", v |-> v, n |-> SIZEOF_OFF_T]

DataSeg(id, off, n) == [t |-> "data", id |-> id, off |-> off, n |-> n]

ListSeg(s) == [t |-> "list", s |-> s, n |-> Len(s)]

E_INVALID_COMMAND == TextErr("ERROR: Invalid command", 22)

E_UPLOADF_FORMAT == TextErr("ERROR: Invalid uploadf command format", 36)

E_DOWNLF_FORMAT == TextErr("ERROR: Invalid downlf command format", 34)

E_REMOVEF_FORMAT == TextErr("ERROR: Invalid removef command format", 35)

E_DISPFNAMES_FORMAT == TextErr("ERROR: Invalid dispfnames command format", 38)

E_UNKNOWN_COMMAND == TextErr("ERROR: Unknown command", 21)

E_ONLY_HANDLES(nd) ==
    TextErr(IF nd = "S2" THEN "ERROR: S2 only handles PDF files"
            ELSE "ERROR: S4 only handles ZIP files", 31)

E_CREATE_DIRECTORY == TextErr("ERROR: Failed to create directory", 32)

E_MOVE_FILE == TextErr("ERROR: Failed to move file to destination", 38)

S_STORED(nd) ==
    TextOk(IF nd = "S2" THEN "SUCCESS: PDF file stored in S2"
           ELSE "SUCCESS: ZIP file stored in S4", 30)

E_NOT_FOUND(nd) ==
    TextErr(IF nd = "S2" THEN "ERROR: PDF file not found in S2"
            ELSE "ERROR: ZIP file not found in S4", 30)

E_OPEN_FILE(nd) ==
    TextErr(IF nd = "S2" THEN "ERROR: Failed to open PDF file"
            ELSE "ERROR: Failed to open ZIP file", 29)

E_SEND_SIZE == TextErr("ERROR: Failed to send file size", 31)

E_TRANSFER == TextErr("ERROR: File transfer failed", 27)

S_DELETED(nd) ==
    TextOk(IF nd = "S2" THEN "SUCCESS: PDF file deleted from S2"
           ELSE "SUCCESS: ZIP file deleted from S4", 32)

E_CREATE_TAR == TextErr("ERROR: Failed to create tar file", 32)

E_TAR_NOT_FOUND == TextErr("ERROR: Tar file not found", 25)

E_OPEN_TAR == TextErr("ERROR: Failed to open tar file", 30)

\* ---------------------------------------------------------------- listing
\* readdir(): "." and ".." and then the entries of the directory, in the
\* order ord the filesystem presents them
ReadDir(f, d, ord) ==
    <<<<".">>, <<".", ".">>>> \o SelectSeq(ord, LAMBDA nm : Exists(f, d \o <<nm>>))

\* (fault) one byte more than n is appended
StrNCat_over(dest, src, n) == dest \o Take(src, n + 1)

\* strncat(dest, src, n)
StrNCat(dest, src, n) == dest \o Take(src, n)

\* one matching file: the two strncat calls on file_list
AppendLine(file_list, output_path) ==
    LET l1 == StrNCat(file_list, output_path, BUFFER_SIZE - Len(file_list) - 1)
    IN StrNCat(l1, <<"\n">>, BUFFER_SIZE - Len(l1) - 1)

\* "~S1/%s" of new_relative_path
OutputPath(new_relative_path) ==
    Snprintf(MAX_PATH_LEN, MARKER \o <<"/">> \o new_relative_path)

RECURSIVE list_files(_, _, _, _, _, _)
RECURSIVE list_entries(_, _, _, _, _, _, _, _)
\* the readdir loop of list_pdf_files / list_zip_files over the entries ents
\* of the open directory d
list_entries(f, ext, ord, d, base_path, relative_path, ents, file_list) ==
    IF ents = <<>> THEN file_list
    ELSE LET d_name == Head(ents)
             full_path == Snprintf(MAX_PATH_LEN, base_path \o <<"/">> \o d_name)
             new_relative_path ==
                 IF relative_path = <<>> THEN Snprintf(MAX_PATH_LEN, d_name)
                 ELSE Snprintf(MAX_PATH_LEN, relative_path \o <<"/">> \o d_name)
             next ==
                 IF d_name = <<".">> \/ d_name = <<".", ".">> THEN file_list
                 ELSE IF IsReg(f, d \o <<d_name>>)
                 THEN IF ListExtOk(d_name, ext)
                      THEN AppendLine(file_list, OutputPath(new_relative_path))
                      ELSE file_list
                 ELSE list_files(f, ext, ord, full_path, new_relative_path, file_list)
         IN list_entries(f, ext, ord, d, base_path, relative_path, Tail(ents), next)

\* list_pdf_files(base_path, relative_path) / list_zip_files: opendir, the
\* readdir loop, closedir; file_list is the captured buffer
list_files(f, ext, ord, base_path, relative_path, file_list) ==
    LET d == Resolve(f, base_path).at
    IN IF StatErr(f, base_path) # "OK" \/ ~IsDir(f, d) THEN file_list
       ELSE list_entries(f, ext, ord, d, base_path, relative_path,
                         ReadDir(f, d, ord), file_list)

\* ---------------------------------------------------------------- archive
\* find <root> -type f -name "*.pdf": the regular files under the storage
\* root whose name ends in the extension
FindFiles(f, nd) ==
    {p \in DOMAIN f : /\ IsPrefix(RootDir(nd), p)
                      /\ IsReg(f, p)
                      /\ p # RootDir(nd)
                      /\ EndsWith(p[Len(p)], Ext(nd))}

RECURSIVE SumOver(_, _)
SumOver(S, g) ==
    IF S = {} THEN 0
    ELSE LET x == CHOOSE y \in S : TRUE IN g[x] + SumOver(S \ {x}, g)

RoundUp(n, k) == ((n + k - 1) \div k) * k

\* size of the tar archive of the files: a 512-byte header and the content
\* padded to 512 bytes per member, two zero blocks, padded to 10240 bytes
TarLen(f, files) ==
    LET member == [p \in files |-> 512 + RoundUp(f[p].len, 512)]
    IN RoundUp(SumOver(files, member) + 1024, 10240)

\* the archive's content is identified by the contents it packs
TarId(f, files) ==
    LET code == [p \in files |-> 2 ^ f[p].id]
    IN 1000 + SumOver(files, code)

\* ----------------------------------------------------------------- inputs
LongPad == 245       \* padding of the long file names: 250-byte names

N_docs == <<"d", "o", "c", "s">>

N_report(nd) == <<"r", "e", "p", "o", "r", "t">> \o Ext(nd)

N_notes == <<"n", "o", "t", "e", "s", ".", "t", "x", "t">>

N_old(nd) == <<"o", "l", "d">> \o Ext(nd)

N_b == <<"b", ".", "t", "x", "t">>

N_c == <<"c">>

N_nope == <<"n", "o", "p", "e">>

N_long(k, nd) == <<k>> \o Rep("x", LongPad) \o Ext(nd)

LongKeys == <<"1", "2", "3", "4", "5">>

\* "a/b/c" of <<a, b, c>>
RECURSIVE JoinWith(_, _)
JoinWith(parts, sep) ==
    IF Len(parts) = 0 THEN <<>>
    ELSE IF Len(parts) = 1 THEN parts[1]
    ELSE parts[1] \o <<sep>> \o JoinWith(Tail(parts), sep)

AbsPath(p) == <<"/">> \o JoinWith(p, "/")

VPath(p) == IF p = <<>> THEN MARKER ELSE MARKER \o <<"/">> \o JoinWith(p, "/")

\* files the gateway staged for upload, and other files next to them
SrcOwn(nd) == AbsPath(TmpDir \o <<N_report(nd)>>)

SrcTxt == AbsPath(TmpDir \o <<N_b>>)

SrcNoExt == AbsPath(TmpDir \o <<N_c>>)

SrcStored(nd) == AbsPath(RootDir(nd) \o <<N_docs, N_report(nd)>>)

Dests(nd) == {VPath(<<>>), VPath(<<N_docs>>), VPath(<<N_docs, N_report(nd)>>)}

FilePaths(nd) ==
    {VPath(<<N_docs, N_report(nd)>>),
     VPath(<<N_docs, N_report(nd), N_report(nd)>>),
     VPath(<<N_report(nd)>>),
     VPath(<<N_docs>>),
     VPath(<<N_nope>>)}

DirPaths(nd) ==
    {VPath(<<>>), VPath(<<N_docs>>), VPath(<<N_nope>>),
     VPath(<<N_docs, N_report(nd)>>), VPath(<<N_docs, N_old(nd)>>)}

\* a path of four names that fills the command buffer after "removef ", and
\* a path that climbs out of the storage root to a staged file
N_deep(c) == Rep(c, (BUFFER_SIZE - 12) \div 4 - 1)

V_deep == VPath(<<N_deep("a"), N_deep("b"), N_deep("c"), N_deep("d")>>)

N_up == <<".", ".">>

V_up == VPath(<<N_up, N_up, N_up>> \o TmpDir \o <<N_b>>)

FarPaths == {V_deep, V_up}

K_uploadf == <<"u", "p", "l", "o", "a", "d", "f">>

K_downlf == <<"d", "o", "w", "n", "l", "f">>

K_removef == <<"r", "e", "m", "o", "v", "e", "f">>

K_downltar == <<"d", "o", "w", "n", "l", "t", "a", "r">>

K_dispfnames == <<"d", "i", "s", "p", "f", "n", "a", "m", "e", "s">>

K_bogus == <<"b", "o", "g", "u", "s">>

\* uploads: the staged file to every destination, files of other types,
\* and a file that is already stored
Uploads(nd) ==
    {<<SrcOwn(nd), dst>> : dst \in Dests(nd)}
    \cup {<<SrcTxt, VPath(<<N_docs>>)>>, <<SrcNoExt, VPath(<<N_docs>>)>>,
          <<SrcStored(nd), VPath(<<N_docs>>)>>}

\* command lines with every required argument
GoodLines(nd) ==
    {JoinWith(<<K_uploadf, u[1], u[2]>>, " ") : u \in Uploads(nd)}
    \cup {JoinWith(<<K_downlf, v>>, " ") : v \in FilePaths(nd)}
    \cup {JoinWith(<<K_removef, v>>, " ") : v \in FilePaths(nd) \cup FarPaths}
    \cup {JoinWith(<<K_dispfnames, v>>, " ") : v \in DirPaths(nd)}
    \cup {<<" ">> \o K_downlf \o <<" ", " ">> \o VPath(<<N_docs, N_report(nd)>>) \o <<" ">>}

\* unknown commands and commands that lack an argument
BadLines(nd) ==
    {<<>>, <<" ", " ">>, K_bogus, K_uploadf, K_downlf, K_removef, K_dispfnames,
     JoinWith(<<K_uploadf, SrcOwn(nd)>>, " "),
     K_removef \o <<" ">>,
     JoinWith(<<K_bogus, VPath(<<N_docs>>)>>, " ")}

\* "downltar" is a command of s2.c and none of part_000
Lines(nd) == GoodLines(nd) \cup BadLines(nd) \cup {K_downltar}

\* initial filesystems: a fresh node whose storage root does not exist yet,
\* a populated node, and a node holding files with long names
MkFs(dirs, files) ==
    [p \in dirs \cup {x[1] : x \in files} |->
        IF p \in dirs THEN DirNode
        ELSE LET x == CHOOSE y \in files : y[1] = p IN FileNode(x[2], x[3])]

BaseDirs == {<<>>, Parent(HomeDir), HomeDir, TmpDir}

Staged(nd) ==
    {<<TmpDir \o <<N_report(nd)>>, 1, 2500>>,
     <<TmpDir \o <<N_b>>, 2, 5>>,
     <<TmpDir \o <<N_c>>, 3, 0>>}

FsFresh(nd) == MkFs(BaseDirs, Staged(nd))

FsDocs(nd) ==
    MkFs(BaseDirs \cup {RootDir(nd), RootDir(nd) \o <<N_docs>>,
                        RootDir(nd) \o <<N_docs, N_old(nd)>>},
         Staged(nd) \cup
         {<<RootDir(nd) \o <<N_docs, N_report(nd)>>, 4, 1030>>,
          <<RootDir(nd) \o <<N_docs, N_notes>>, 5, 7>>,
          <<RootDir(nd) \o <<N_docs, N_old(nd), N_notes>>, 6, 0>>})

FsBig(nd) ==
    MkFs(BaseDirs \cup {RootDir(nd)},
         Staged(nd) \cup
         {<<RootDir(nd) \o <<N_long(LongKeys[k], nd)>>, 6 + k, k>> : k \in 1..Len(LongKeys)})

InitFs(nd) == {FsFresh(nd), FsDocs(nd), FsBig(nd)}

\* orders in which readdir() may present the names of a directory
NameList(nd) ==
    <<N_docs, N_report(nd), N_notes, N_old(nd), N_b, N_c>>
    \o [k \in 1..Len(LongKeys) |-> N_long(LongKeys[k], nd)]

Reverse(s) == [i \in 1..Len(s) |-> s[Len(s) + 1 - i]]

DirOrders(nd) == {NameList(nd), Reverse(NameList(nd))}

\* ------------------------------------------------------------------ state
VARIABLES
    node,       \* which program runs: "S2" (s2.c) or "S4" (part_000)
    fs,         \* the filesystem
    apc,        \* the acceptor's position in the loop of main
    nconn,      \* connections accepted so far
    pc,         \* per worker: position of the child process
    line,       \* per worker: the bytes the peer sent
    peerOpen,   \* per worker: the peer still holds the connection open
    out,        \* per worker: the segments written to the socket
    loc,        \* per worker: the C locals of the running handler
    status,     \* per worker: exit status
    handler,    \* history: the operation handler handle_client called
    fault,      \* history: a system call failed for an environmental reason
    fs0,        \* history: the filesystem when the connection was accepted
    gone,       \* history: arguments of successful removef, until a path is created
    lastUp      \* history: the last successful uploadf, until the filesystem changes

vars == <<node, fs, apc, nconn, pc, line, peerOpen, out, loc, status,
          handler, fault, fs0, gone, lastUp>>

\* the child processes, in the order of their fork()
Workers == 1..MaxConns

NoFd == [kind |-> "none", id |-> 0, len |-> 0]

Loc0 == [filename |-> <<>>, dest_path |-> <<>>, s2_path |-> <<>>, p |-> 0,
         st_size |-> 0, fd |-> NoFd, remaining |-> 0, off |-> 0]

EmptyFs == [p \in {<<>>} |-> DirNode]

NoUp == [filename |-> <<>>, dest_path |-> <<>>, data |-> NoFd]

Init ==
    /\ node \in Nodes
    /\ fs \in InitFs(node)
    /\ apc = "accept"
    /\ nconn = 0
    /\ pc = [w \in Workers |-> "free"]
    /\ line = [w \in Workers |-> <<>>]
    /\ peerOpen = [w \in Workers |-> FALSE]
    /\ out = [w \in Workers |-> <<>>]
    /\ loc = [w \in Workers |-> Loc0]
    /\ status = [w \in Workers |-> 0]
    /\ handler = [w \in Workers |-> "none"]
    /\ fault = [w \in Workers |-> FALSE]
    /\ fs0 = [w \in Workers |-> EmptyFs]
    /\ gone = {}
    /\ lastUp = NoUp

\* what a write to the connection may find: the peer still there, if it was
\* at the write before, or gone
Sock(w) == {peerOpen[w], FALSE}

\* the bytes the peer has received once segs are written to a connection
\* that is up or not; a write of zero bytes puts nothing on the wire
Sent(w, up, segs) ==
    IF up THEN out[w] \o SelectSeq(segs, LAMBDA g : g.n > 0) ELSE out[w]

\* write(client_sock, ...) of each of segs: no write succeeds after one has
\* failed
Write(w, segs) ==
    IF segs = <<>> THEN UNCHANGED <<out, peerOpen>>
    ELSE \E up \in Sock(w) :
           /\ peerOpen' = [peerOpen EXCEPT ![w] = up]
           /\ out' = [out EXCEPT ![w] = Sent(w, up, segs)]

\* (fault) handle_client loops and reads the next command
Return_again(w, segs) ==
    /\ Write(w, segs)
    /\ pc' = [pc EXCEPT ![w] = "handle_client"]

\* the handler writes segs and returns to handle_client, which returns to
\* main
Return(w, segs) ==
    /\ Write(w, segs)
    /\ pc' = [pc EXCEPT ![w] = "exit"]

\* ---------------------------------------------------------------- acceptor
\* the gateway sends one command at a time: it connects when no worker runs
GatewayIdle == \A w \in Workers : pc[w] \in {"free", "exited"}

\* accept() returns a connection and fork() creates its worker, a new
\* process
Accept(w, l) ==
    /\ apc = "accept"
    /\ nconn < MaxConns
    /\ w = nconn + 1
    /\ pc[w] = "free"
    /\ apc' = "waitpid"
    /\ nconn' = nconn + 1
    /\ pc' = [pc EXCEPT ![w] = "handle_client"]
    /\ line' = [line EXCEPT ![w] = l]
    /\ peerOpen' = [peerOpen EXCEPT ![w] = TRUE]
    /\ out' = [out EXCEPT ![w] = <<>>]
    /\ loc' = [loc EXCEPT ![w] = Loc0]
    /\ status' = [status EXCEPT ![w] = 0]
    /\ handler' = [handler EXCEPT ![w] = "none"]
    /\ fault' = [fault EXCEPT ![w] = FALSE]
    /\ fs0' = [fs0 EXCEPT ![w] = fs]
    /\ UNCHANGED <<node, fs, gone, lastUp>>

\* a connection of the gateway, which waits for the end of one command
\* before it sends the next
Connect(w, l) == GatewayIdle /\ Accept(w, l)

\* while (waitpid(-1, NULL, WNOHANG) > 0);
Reap ==
    /\ apc = "waitpid"
    /\ apc' = "accept"
    /\ pc' = [w \in Workers |-> IF pc[w] = "exited" THEN "free" ELSE pc[w]]
    /\ status' = [w \in Workers |-> IF pc[w] = "exited" THEN 0 ELSE status[w]]
    /\ UNCHANGED <<node, fs, nconn, line, peerOpen, out, loc, handler, fault, fs0, gone, lastUp>>

\* the peer resets the connection before the worker reads the command; a
\* later reset shows at the worker's next write (Write)
PeerReset(w) ==
    /\ pc[w] = "handle_client"
    /\ peerOpen[w]
    /\ peerOpen' = [peerOpen EXCEPT ![w] = FALSE]
    /\ UNCHANGED <<node, fs, apc, nconn, pc, line, out, loc, status,
                   handler, fault, fs0, gone, lastUp>>

\* close(newsockfd); exit(0): the process is a zombie that holds nothing but
\* its exit status until the acceptor collects it
Exit(w) ==
    /\ pc[w] = "exit"
    /\ pc' = [pc EXCEPT ![w] = "exited"]
    /\ line' = [line EXCEPT ![w] = <<>>]
    /\ peerOpen' = [peerOpen EXCEPT ![w] = FALSE]
    /\ out' = [out EXCEPT ![w] = <<>>]
    /\ loc' = [loc EXCEPT ![w] = Loc0]
    /\ handler' = [handler EXCEPT ![w] = "none"]
    /\ fault' = [fault EXCEPT ![w] = FALSE]
    /\ fs0' = [fs0 EXCEPT ![w] = EmptyFs]
    /\ UNCHANGED <<node, fs, apc, nconn, status, gone, lastUp>>

\* ------------------------------------------------------------- dispatcher
\* (fault) only the first argument is checked
UploadArgsMissing_one(toks) == Len(toks) < 2

\* uploadf: filename == NULL || dest_path == NULL
UploadArgsMissing(toks) == Len(toks) < 3

\* what handle_client does with the buffer: the handler it calls with its
\* arguments, or the reply it writes itself
Dispatch(nd, buffer) ==
    LET toks == StrTok(buffer, " ")
        Tok(k) == IF k <= Len(toks) THEN toks[k] ELSE <<>>
        Call(h, a, b) == [handler |-> h, filename |-> a, dest_path |-> b, reply |-> <<>>]
        Fail(seg) == [handler |-> "none", filename |-> <<>>, dest_path |-> <<>>,
                      reply |-> <<seg>>]
    IN IF Len(toks) = 0 THEN Fail(E_INVALID_COMMAND)
       ELSE IF toks[1] = K_uploadf
       THEN IF UploadArgsMissing(toks) THEN Fail(E_UPLOADF_FORMAT)
            ELSE Call("upload_file", Tok(2), Tok(3))
       ELSE IF toks[1] = K_downlf
       THEN IF Len(toks) < 2 THEN Fail(E_DOWNLF_FORMAT)
            ELSE Call("download_file", Tok(2), <<>>)
       ELSE IF toks[1] = K_removef
       THEN IF Len(toks) < 2 THEN Fail(E_REMOVEF_FORMAT)
            ELSE Call("remove_file", Tok(2), <<>>)
       ELSE IF toks[1] = K_downltar /\ nd = "S2"
       THEN Call("download_tar", <<>>, <<>>)
       ELSE IF toks[1] = K_dispfnames
       THEN IF Len(toks) < 2 THEN Fail(E_DISPFNAMES_FORMAT)
            ELSE Call("display_filenames", Tok(2), <<>>)
       ELSE Fail(E_UNKNOWN_COMMAND)

\* handle_client: read the command, parse it, call the handler
HandleClient(w) ==
    /\ pc[w] = "handle_client"
    /\ peerOpen[w]
    /\ LET d == Dispatch(node, Take(line[w], BUFFER_SIZE - 1))
       IN /\ handler' = [handler EXCEPT ![w] = d.handler]
          /\ loc' = [loc EXCEPT ![w].filename = d.filename, ![w].dest_path = d.dest_path]
          /\ pc' = [pc EXCEPT ![w] = IF d.handler = "none" THEN "exit" ELSE d.handler]
          /\ Write(w, d.reply)
    /\ UNCHANGED <<node, fs, apc, nconn, line, status, fault, fs0, gone, lastUp>>

\* handle_client: read() fails on a reset connection; error() exits with 1
HandleClientReadError(w) ==
    /\ pc[w] = "handle_client"
    /\ ~peerOpen[w]
    /\ pc' = [pc EXCEPT ![w] = "exited"]
    /\ status' = [status EXCEPT ![w] = 1]
    /\ line' = [line EXCEPT ![w] = <<>>]
    /\ fs0' = [fs0 EXCEPT ![w] = EmptyFs]
    /\ UNCHANGED <<node, fs, apc, nconn, peerOpen, out, loc, handler, fault, gone, lastUp>>

\* ----------------------------------------------------------------- upload
\* (fault) the pointer skips "~S" only
LocalPath_skip2(nd, vpath) == Snprintf(MAX_PATH_LEN, StorageRoot(nd) \o Drop(vpath, 2))

\* "%s/S2%s" of getenv("HOME") and the virtual path + 3
LocalPath(nd, vpath) == Snprintf(MAX_PATH_LEN, StorageRoot(nd) \o Plus3(vpath))

\* "%s/%s" of s2_path and basename(filename)
FullPath(s2_path, filename) ==
    Snprintf(MAX_PATH_LEN, s2_path \o <<"/">> \o Basename(filename))

\* upload_file: the extension check and the destination path
UploadFile(w) ==
    /\ pc[w] = "upload_file"
    /\ IF ~UploadExtOk(loc[w].filename, node)
       THEN /\ Return(w, <<E_ONLY_HANDLES(node)>>)
            /\ loc' = loc
       ELSE LET s2_path == LocalPath(node, loc[w].dest_path)
            IN /\ loc' = [loc EXCEPT ![w].s2_path = s2_path,
                                     ![w].p = IF s2_path[1] = "/" THEN 2 ELSE 1]
               /\ pc' = [pc EXCEPT ![w] = "create_directory_tree"]
               /\ UNCHANGED <<out, peerOpen>>
    /\ UNCHANGED <<node, fs, apc, nconn, line, status, handler, fault, fs0, gone, lastUp>>

\* create_directory_tree: one mkdir() of the loop over the '/' of tmp, or
\* the final mkdir(); a failure other than EEXIST returns -1 to upload_file
CreateDirectoryTree(w) ==
    /\ pc[w] = "create_directory_tree"
    /\ LET tmp == Snprintf(MAX_PATH_LEN, loc[w].s2_path)
           slashes == {i \in loc[w].p..Len(tmp) : tmp[i] = "/"}
           last == slashes = {}
           q == IF last THEN Len(tmp) + 1 ELSE SetMin(slashes)
           dir == Take(tmp, q - 1)
       IN \E denied \in BOOLEAN :
            /\ denied => MkdirErr(fs, dir) = "OK"
            /\ LET err == IF denied THEN "EACCES" ELSE MkdirErr(fs, dir)
               IN /\ fs' = IF err = "OK" THEN MkdirFs(fs, dir) ELSE fs
                  /\ gone' = IF err = "OK" THEN {} ELSE gone
                  /\ lastUp' = IF err = "OK" THEN NoUp ELSE lastUp
                  /\ fault' = [fault EXCEPT ![w] = @ \/ denied]
                  /\ IF err \notin {"OK", "EEXIST"}
                     THEN /\ Return(w, <<E_CREATE_DIRECTORY>>)
                          /\ loc' = loc
                     ELSE /\ loc' = [loc EXCEPT ![w].p = q + 1]
                          /\ pc' = [pc EXCEPT ![w] = IF last THEN "rename" ELSE @]
                          /\ UNCHANGED <<out, peerOpen>>
    /\ UNCHANGED <<node, apc, nconn, line, status, handler, fs0>>

\* upload_file: rename() of the staged file to its place
UploadRename(w) ==
    /\ pc[w] = "rename"
    /\ LET full_path == FullPath(loc[w].s2_path, loc[w].filename)
           rerr == RenameErr(fs, loc[w].filename, full_path)
       IN \E denied \in BOOLEAN :
            /\ denied => rerr = "OK"
            /\ fault' = [fault EXCEPT ![w] = @ \/ denied]
            /\ IF rerr = "OK" /\ ~denied
               THEN /\ fs' = RenameFs(fs, loc[w].filename, full_path)
                    /\ gone' = {}
                    /\ lastUp' = [filename |-> loc[w].filename,
                                  dest_path |-> loc[w].dest_path,
                                  data |-> Lookup(fs, loc[w].filename)]
                    /\ Return(w, <<S_STORED(node)>>)
               ELSE /\ fs' = fs
                    /\ gone' = gone
                    /\ lastUp' = lastUp
                    /\ Return(w, <<E_MOVE_FILE>>)
    /\ UNCHANGED <<node, apc, nconn, line, loc, status, handler, fs0>>

\* --------------------------------------------------------------- download
\* (fault) the size of the blocks the file occupies
StSize_blocks(nodeRec, dsz) ==
    IF nodeRec.kind = "dir" THEN dsz ELSE ((nodeRec.len + 511) \div 512) * 512

\* st.st_size: the length of a regular file; dsz for a directory
StSize(nodeRec, dsz) == IF nodeRec.kind = "dir" THEN dsz ELSE nodeRec.len

\* (fault) the whole remainder in one read
ChunkSize_whole(remaining) == remaining

\* (remaining < BUFFER_SIZE) ? remaining : BUFFER_SIZE
ChunkSize(remaining) == IF remaining < BUFFER_SIZE THEN remaining ELSE BUFFER_SIZE

\* the bytes of a file are a function of its content id: byte i of content id
ByteAt(id, i) == (id * 37 + i * i + 11 * i) % 256

\* download_file: stat()
DownloadStat(w) ==
    /\ pc[w] = "download_file"
    /\ LET s2_path == LocalPath(node, loc[w].filename)
       IN IF StatErr(fs, s2_path) # "OK"
          THEN /\ Return(w, <<E_NOT_FOUND(node)>>)
               /\ loc' = loc
          ELSE \E dsz \in DirStSizes :
                 /\ loc' = [loc EXCEPT ![w].s2_path = s2_path,
                                       ![w].st_size = StSize(Lookup(fs, s2_path), dsz)]
                 /\ pc' = [pc EXCEPT ![w] = "open"]
                 /\ UNCHANGED <<out, peerOpen>>
    /\ UNCHANGED <<node, fs, apc, nconn, line, status, handler, fault, fs0, gone, lastUp>>

\* download_file: open()
DownloadOpen(w) ==
    /\ pc[w] = "open"
    /\ \E denied \in BOOLEAN :
         /\ fault' = [fault EXCEPT ![w] = @ \/ denied]
         /\ IF denied \/ StatErr(fs, loc[w].s2_path) # "OK"
            THEN /\ Return(w, <<E_OPEN_FILE(node)>>)
                 /\ loc' = loc
            ELSE /\ loc' = [loc EXCEPT ![w].fd = Lookup(fs, loc[w].s2_path), ![w].off = 0]
                 /\ pc' = [pc EXCEPT ![w] = "send_size"]
                 /\ UNCHANGED <<out, peerOpen>>
    /\ UNCHANGED <<node, fs, apc, nconn, line, status, handler, fs0, gone, lastUp>>

\* download_file: write() of st.st_size
DownloadSendSize(w) ==
    /\ pc[w] = "send_size"
    /\ \E up \in Sock(w) :
         /\ peerOpen' = [peerOpen EXCEPT ![w] = up]
         /\ IF ~up
            THEN /\ out' = [out EXCEPT ![w] = Sent(w, up, <<E_SEND_SIZE>>)]
                 /\ pc' = [pc EXCEPT ![w] = "exit"]
                 /\ loc' = [loc EXCEPT ![w].fd = NoFd]
            ELSE /\ out' = [out EXCEPT ![w] = Append(@, SizeSeg(loc[w].st_size))]
                 /\ loc' = [loc EXCEPT ![w].remaining = loc[w].st_size]
                 /\ pc' = [pc EXCEPT ![w] = "send_data"]
    /\ UNCHANGED <<node, fs, apc, nconn, line, status, handler, fault, fs0, gone, lastUp>>

\* read(fd, buffer, count): the bytes read, or -1
ReadLen(fd, off, count, eio) ==
    IF eio \/ fd.kind # "file" THEN -1 ELSE Min(count, fd.len - off)

\* download_file: one turn of the loop, read() a chunk and write() it
DownloadChunk(w) ==
    /\ pc[w] = "send_data"
    /\ loc[w].remaining > 0
    /\ \E eio \in BOOLEAN :
         LET count == ChunkSize(loc[w].remaining)
             n == ReadLen(loc[w].fd, loc[w].off, count, eio)
         IN /\ fault' = [fault EXCEPT ![w] = @ \/ eio]
            /\ IF n <= 0
               THEN /\ Return(w, <<E_TRANSFER>>)
                    /\ loc' = [loc EXCEPT ![w].fd = NoFd]
               ELSE \E up \in Sock(w) :
                      /\ peerOpen' = [peerOpen EXCEPT ![w] = up]
                      /\ IF ~up
                         THEN /\ out' = [out EXCEPT ![w] = Sent(w, up, <<E_TRANSFER>>)]
                              /\ pc' = [pc EXCEPT ![w] = "exit"]
                              /\ loc' = [loc EXCEPT ![w].fd = NoFd]
                         ELSE /\ out' = [out EXCEPT ![w] =
                                            Append(@, DataSeg(loc[w].fd.id, loc[w].off, n))]
                              /\ loc' = [loc EXCEPT ![w].remaining = @ - n,
                                                    ![w].off = @ + n]
                              /\ pc' = pc
    /\ UNCHANGED <<node, fs, apc, nconn, line, status, handler, fs0, gone, lastUp>>

\* download_file: the loop ends, close(fd), return 0
DownloadDone(w) ==
    /\ pc[w] = "send_data"
    /\ loc[w].remaining <= 0
    /\ Return(w, <<>>)
    /\ loc' = [loc EXCEPT ![w].fd = NoFd]
    /\ UNCHANGED <<node, fs, apc, nconn, line, status, handler, fault, fs0, gone, lastUp>>

\* ----------------------------------------------------------------- remove
\* remove_file: unlink()
RemoveFile(w) ==
    /\ pc[w] = "remove_file"
    /\ LET s2_path == LocalPath(node, loc[w].filename)
           uerr == UnlinkErr(fs, s2_path)
       IN \E denied \in BOOLEAN :
            /\ denied => uerr = "OK"
            /\ fault' = [fault EXCEPT ![w] = @ \/ denied]
            /\ IF uerr = "OK" /\ ~denied
               THEN /\ fs' = UnlinkFs(fs, s2_path)
                    /\ gone' = gone \cup {loc[w].filename}
                    /\ lastUp' = NoUp
                    /\ Return(w, <<S_DELETED(node)>>)
               ELSE /\ fs' = fs
                    /\ gone' = gone
                    /\ lastUp' = lastUp
                    /\ Return(w, <<E_NOT_FOUND(node)>>)
            /\ loc' = [loc EXCEPT ![w].s2_path = s2_path]
    /\ UNCHANGED <<node, apc, nconn, line, status, handler, fs0>>

\* ---------------------------------------------------------------- listing
\* (fault) the argument is ignored
ListPath_root(nd, pathname) == Snprintf(MAX_PATH_LEN, StorageRoot(nd))

\* "%s/S2%s" with "" for the bare root marker and pathname + 3 otherwise
ListPath(nd, pathname) ==
    Snprintf(MAX_PATH_LEN,
             StorageRoot(nd) \o (IF pathname = MARKER THEN <<>> ELSE Plus3(pathname)))

\* the listing display_filenames builds for the directory at s2_path
FileList(f, nd, ord, s2_path) ==
    IF StatErr(f, s2_path) # "OK" \/ Lookup(f, s2_path).kind # "dir" THEN <<>>
    ELSE list_files(f, Ext(nd), ord, s2_path, <<>>, <<>>)

\* display_filenames: stat(), the traversal, write() of the listing; when
\* opendir() of the listed directory fails, list_pdf_files returns with the
\* list still empty
DisplayFilenames(w) ==
    /\ pc[w] = "display_filenames"
    /\ LET s2_path == ListPath(node, loc[w].filename)
       IN \E ord \in DirOrders(node) : \E denied \in BOOLEAN :
            /\ denied => FileList(fs, node, ord, s2_path) # <<>>
            /\ fault' = [fault EXCEPT ![w] = @ \/ denied]
            /\ Return(w, <<ListSeg(IF denied THEN <<>>
                                   ELSE FileList(fs, node, ord, s2_path))>>)
            /\ loc' = [loc EXCEPT ![w].s2_path = s2_path]
    /\ UNCHANGED <<node, fs, apc, nconn, line, status, handler,
                   fs0, gone, lastUp>>

\* ---------------------------------------------------------------- archive
\* download_tar: system("find ... | tar -cf /tmp/pdffiles.tar -T -")
DownloadTar(w) ==
    /\ pc[w] = "download_tar"
    /\ LET files == FindFiles(fs, node)
           at == Resolve(fs, TAR_PATH).at
           tarerr == Resolve(fs, TAR_PATH).err # "OK" \/ IsDir(fs, at)
       IN \E failed \in BOOLEAN :
            /\ fault' = [fault EXCEPT ![w] = @ \/ failed]
            /\ IF failed \/ tarerr
               THEN /\ fs' = fs
                    /\ gone' = gone
                    /\ lastUp' = lastUp
                    /\ Return(w, <<E_CREATE_TAR>>)
               ELSE /\ fs' = [p \in DOMAIN fs \cup {at} |->
                                 IF p = at THEN FileNode(TarId(fs, files), TarLen(fs, files))
                                 ELSE fs[p]]
                    /\ gone' = {}
                    /\ lastUp' = NoUp
                    /\ pc' = [pc EXCEPT ![w] = "tar_stat"]
                    /\ UNCHANGED <<out, peerOpen>>
    /\ UNCHANGED <<node, apc, nconn, line, loc, status, handler, fs0>>

\* download_tar: stat("/tmp/pdffiles.tar")
DownloadTarStat(w) ==
    /\ pc[w] = "tar_stat"
    /\ IF StatErr(fs, TAR_PATH) # "OK"
       THEN /\ Return(w, <<E_TAR_NOT_FOUND>>)
            /\ loc' = loc
       ELSE /\ loc' = [loc EXCEPT ![w].st_size = Lookup(fs, TAR_PATH).len]
            /\ pc' = [pc EXCEPT ![w] = "tar_open"]
            /\ UNCHANGED <<out, peerOpen>>
    /\ UNCHANGED <<node, fs, apc, nconn, line, status, handler, fault, fs0, gone, lastUp>>

\* download_tar: open("/tmp/pdffiles.tar")
DownloadTarOpen(w) ==
    /\ pc[w] = "tar_open"
    /\ \E denied \in BOOLEAN :
         /\ fault' = [fault EXCEPT ![w] = @ \/ denied]
         /\ IF denied \/ StatErr(fs, TAR_PATH) # "OK"
            THEN /\ Return(w, <<E_OPEN_TAR>>)
                 /\ loc' = loc
            ELSE /\ loc' = [loc EXCEPT ![w].fd = Lookup(fs, TAR_PATH), ![w].off = 0]
                 /\ pc' = [pc EXCEPT ![w] = "tar_size"]
                 /\ UNCHANGED <<out, peerOpen>>
    /\ UNCHANGED <<node, fs, apc, nconn, line, status, handler, fs0, gone, lastUp>>

\* download_tar: write() of st.st_size, its result ignored
DownloadTarSendSize(w) ==
    /\ pc[w] = "tar_size"
    /\ Write(w, <<SizeSeg(loc[w].st_size)>>)
    /\ loc' = [loc EXCEPT ![w].remaining = loc[w].st_size]
    /\ pc' = [pc EXCEPT ![w] = "tar_data"]
    /\ UNCHANGED <<node, fs, apc, nconn, line, status, handler, fault, fs0, gone, lastUp>>

\* download_tar: one sendfile() of the loop
DownloadTarSendfile(w) ==
    /\ pc[w] = "tar_data"
    /\ loc[w].remaining > 0
    /\ \E eio \in BOOLEAN :
         \E up \in Sock(w) :
           LET sent == IF ~up THEN -1
                       ELSE ReadLen(loc[w].fd, loc[w].off, loc[w].remaining, eio)
           IN /\ fault' = [fault EXCEPT ![w] = @ \/ eio]
              /\ peerOpen' = [peerOpen EXCEPT ![w] = up]
              /\ IF sent <= 0
                 THEN /\ out' = [out EXCEPT ![w] = Sent(w, up, <<E_TRANSFER>>)]
                      /\ pc' = [pc EXCEPT ![w] = "exit"]
                      /\ loc' = [loc EXCEPT ![w].fd = NoFd]
                 ELSE /\ out' = [out EXCEPT ![w] =
                                    Append(@, DataSeg(loc[w].fd.id, loc[w].off, sent))]
                      /\ loc' = [loc EXCEPT ![w].remaining = @ - sent, ![w].off = @ + sent]
                      /\ pc' = pc
    /\ UNCHANGED <<node, fs, apc, nconn, line, status, handler, fs0, gone, lastUp>>

\* download_tar: close(fd); unlink("/tmp/pdffiles.tar"); return 0
DownloadTarUnlink(w) ==
    /\ pc[w] = "tar_data"
    /\ loc[w].remaining <= 0
    /\ fs' = IF UnlinkErr(fs, TAR_PATH) = "OK" THEN UnlinkFs(fs, TAR_PATH) ELSE fs
    /\ lastUp' = NoUp
    /\ Return(w, <<>>)
    /\ loc' = [loc EXCEPT ![w].fd = NoFd]
    /\ UNCHANGED <<node, apc, nconn, line, status, handler, fault, fs0, gone>>

\* ---------------------------------------------------------- specification
Next ==
    \/ \E w \in Workers : \E l \in Lines(node) : Connect(w, l)
    \/ Reap
    \/ \E w \in Workers : PeerReset(w)
    \/ \E w \in Workers : HandleClient(w)
    \/ \E w \in Workers : HandleClientReadError(w)
    \/ \E w \in Workers : UploadFile(w)
    \/ \E w \in Workers : CreateDirectoryTree(w)
    \/ \E w \in Workers : UploadRename(w)
    \/ \E w \in Workers : DownloadStat(w)
    \/ \E w \in Workers : DownloadOpen(w)
    \/ \E w \in Workers : DownloadSendSize(w)
    \/ \E w \in Workers : DownloadChunk(w)
    \/ \E w \in Workers : DownloadDone(w)
    \/ \E w \in Workers : RemoveFile(w)
    \/ \E w \in Workers : DisplayFilenames(w)
    \/ \E w \in Workers : DownloadTar(w)
    \/ \E w \in Workers : DownloadTarStat(w)
    \/ \E w \in Workers : DownloadTarOpen(w)
    \/ \E w \in Workers : DownloadTarSendSize(w)
    \/ \E w \in Workers : DownloadTarSendfile(w)
    \/ \E w \in Workers : DownloadTarUnlink(w)
    \/ \E w \in Workers : Exit(w)

Spec == Init /\ [][Next]_vars

\* ------------------------------------------------------------- properties
\* the handler of worker w has returned and the worker has not yet exited
Returned(w) == pc[w] = "exit"

IsUpload(w, src, dst) == line[w] = JoinWith(<<K_uploadf, src, dst>>, " ")

IsDownlf(w, v) == line[w] = JoinWith(<<K_downlf, v>>, " ")

IsRemovef(w, v) == line[w] = JoinWith(<<K_removef, v>>, " ")

IsDispfnames(w, v) == line[w] = JoinWith(<<K_dispfnames, v>>, " ")

\* storageRoot + S for the virtual path "~S1" + S
RootPlus(v) == StorageRoot(node) \o Drop(v, Len(MARKER))

\* the last component of a path string
LastName(s) == LET c == StrTok(s, "/") IN c[Len(c)]

IsFileAt(f, s) == StatErr(f, s) = "OK" /\ Lookup(f, s).kind = "file"

IsDirAt(f, s) == StatErr(f, s) = "OK" /\ Lookup(f, s).kind = "dir"

\* the bytes of a file and of the data segments of a reply
FileBytes(data) == [i \in 1..data.len |-> ByteAt(data.id, i - 1)]

SegBytes(g) == [i \in 1..g.n |-> ByteAt(g.id, g.off + i - 1)]

RECURSIVE Payload(_)
Payload(segs) ==
    IF segs = <<>> THEN <<>> ELSE SegBytes(Head(segs)) \o Payload(Tail(segs))

\* segs is one TransferFrame carrying the file data: its size, then its
\* bytes in data segments
IsFrameOf(segs, data) ==
    /\ Len(segs) >= 1
    /\ segs[1] = SizeSeg(data.len)
    /\ \A i \in 2..Len(segs) : segs[i].t = "data"
    /\ Payload(Tail(segs)) = FileBytes(data)

UploadOk(w, src, dst) ==
    /\ Returned(w)
    /\ IsUpload(w, src, dst)
    /\ out[w] = <<S_STORED(node)>>

\* C1 as stated: a successful uploadf <source> '~S1'+S leaves a regular file
\* at exactly storageRoot + S, and the source is gone from its staging path.
C1_AsStated ==
    \A w \in Workers : \A u \in Uploads(node) :
        UploadOk(w, u[1], u[2]) =>
            /\ IsFileAt(fs, RootPlus(u[2]))
            /\ StatErr(fs, u[1]) # "OK"

\* C1 amended: a successful uploadf <source> '~S1'+S of a regular file makes
\* storageRoot + S a directory and leaves the file, content unchanged, at
\* storageRoot + S + "/" + basename(source); the source path is gone unless
\* it is that very path.
C1_UploadPlacesFileInDestDirectory ==
    \A w \in Workers : \A u \in Uploads(node) :
        (UploadOk(w, u[1], u[2]) /\ IsFileAt(fs0[w], u[1])) =>
            LET dir == RootPlus(u[2])
                full == dir \o <<"/">> \o LastName(u[1])
            IN Len(full) < MAX_PATH_LEN =>
                /\ IsDirAt(fs, dir)
                /\ IsFileAt(fs, full)
                /\ Lookup(fs, full) = Lookup(fs0[w], u[1])
                /\ Resolve(fs, full).at # Resolve(fs0[w], u[1]).at
                       => StatErr(fs, u[1]) # "OK"

\* the spec's scenario on empty storage: the file ends up inside a directory
\* named docs/report.pdf
C1_Witness ==
    \E w \in Workers :
        /\ UploadOk(w, SrcOwn(node), VPath(<<N_docs, N_report(node)>>))
        /\ fs0[w] = FsFresh(node)
        /\ IsReg(fs, RootDir(node) \o <<N_docs, N_report(node), N_report(node)>>)
        /\ ~Exists(fs, TmpDir \o <<N_report(node)>>)

\* a download of v that returned with the connection open and no
\* environmental failure, right after the upload recorded in lastUp
DownloadAfterUpload(w, v) ==
    /\ Returned(w)
    /\ IsDownlf(w, v)
    /\ lastUp # NoUp
    /\ lastUp.data.kind = "file"
    /\ peerOpen[w]
    /\ ~fault[w]

\* C2 as stated: a successful uploadf of F to P followed by downlf P replies
\* one frame whose count is F's length and whose payload is F's content.
C2_AsStated ==
    \A w \in Workers : \A v \in FilePaths(node) :
        (DownloadAfterUpload(w, v) /\ v = lastUp.dest_path) =>
            IsFrameOf(out[w], lastUp.data)

\* C2 amended: a successful uploadf of F to P followed, with no change of
\* the filesystem in between, by downlf P + "/" + basename(F) replies one
\* frame whose count is F's length and whose payload is F's content.
C2_RoundTripThroughDestDirectory ==
    \A w \in Workers : \A v \in FilePaths(node) :
        (/\ DownloadAfterUpload(w, v)
         /\ v = lastUp.dest_path \o <<"/">> \o LastName(lastUp.filename)) =>
            IsFrameOf(out[w], lastUp.data)

\* the 2500 bytes of the staged file come back in three chunks
C2_Witness ==
    \E w \in Workers :
        /\ DownloadAfterUpload(w, VPath(<<N_docs, N_report(node)>>))
        /\ lastUp.dest_path = VPath(<<N_docs>>)
        /\ lastUp.filename = SrcOwn(node)
        /\ Len(out[w]) = 4
        /\ out[w][1] = SizeSeg(2500)

\* C3: uploadf of a source whose name does not end in the owned extension
\* changes nothing in the filesystem at any point, never reaches the
\* directory creation or the move, and replies the error text to a peer
\* that is still connected.
C3_WrongExtensionRejected ==
    \A w \in Workers : \A u \in Uploads(node) :
        (IsUpload(w, u[1], u[2]) /\ ~EndsWith(u[1], Ext(node))) =>
            /\ fs = fs0[w]
            /\ pc[w] \in {"handle_client", "upload_file", "exit"}
            /\ (Returned(w) /\ peerOpen[w]) => out[w] = <<E_ONLY_HANDLES(node)>>

C3_Witness ==
    \E w \in Workers :
        /\ Returned(w)
        /\ IsUpload(w, SrcTxt, VPath(<<N_docs>>))
        /\ out[w] = <<E_ONLY_HANDLES(node)>>
        /\ IsReg(fs, TmpDir \o <<N_b>>)
        /\ fs = FsFresh(node)

\* C4 as stated: downlf of a virtual path whose local path is absent or is a
\* directory writes an error text only, never the bytes of a size.
C4_NoFrameUnlessRegularFile ==
    \A w \in Workers : \A v \in FilePaths(node) :
        (IsDownlf(w, v) /\ ~IsFileAt(fs0[w], RootPlus(v))) =>
            /\ \A i \in 1..Len(out[w]) : out[w][i].t # "size"
            /\ (Returned(w) /\ peerOpen[w]) =>
                   (Len(out[w]) = 1 /\ out[w][1].t = "text" /\ out[w][1].err)

\* C5: when downlf finds a regular file and nothing fails, the reply is
\* exactly one frame: the size stat reported, then the content from offset 0
\* to the end in order, in pieces of at most BUFFER_SIZE bytes.
C5_DownloadSendsOneFrame ==
    \A w \in Workers : \A v \in FilePaths(node) :
        (/\ Returned(w)
         /\ IsDownlf(w, v)
         /\ IsFileAt(fs0[w], RootPlus(v))
         /\ peerOpen[w]
         /\ ~fault[w]) =>
            LET data == Lookup(fs0[w], RootPlus(v))
            IN /\ IsFrameOf(out[w], data)
               /\ \A i \in 2..Len(out[w]) :
                    /\ out[w][i].n <= BUFFER_SIZE
                    /\ out[w][i].id = data.id
                    /\ out[w][i].off = IF i = 2 THEN 0
                                       ELSE out[w][i-1].off + out[w][i-1].n

\* the stored 1030-byte file goes out as 1024 + 6 bytes
C5_Witness ==
    \E w \in Workers :
        /\ Returned(w)
        /\ IsDownlf(w, VPath(<<N_docs, N_report(node)>>))
        /\ fs0[w] = FsDocs(node)
        /\ out[w] = <<SizeSeg(1030), DataSeg(4, 0, 1024), DataSeg(4, 1024, 6)>>

\* the listing a returned dispfnames wrote, and its lines
Listing(w) == IF out[w] = <<>> THEN <<>> ELSE out[w][1].s

ListingLines(w) == StrTok(Listing(w), "\n")

Range(q) == {q[i] : i \in 1..Len(q)}

\* the owned-extension regular files beneath the directory d
OwnedBeneath(f, d) ==
    {p \in DOMAIN f : IsPrefix(d, p) /\ IsReg(f, p) /\ EndsWith(p[Len(p)], Ext(node))}

ListedDir(w, v) ==
    /\ Returned(w)
    /\ IsDispfnames(w, v)
    /\ peerOpen[w]
    /\ IsDirAt(fs, RootPlus(v))

\* C6 as stated: every owned-extension file beneath the listed directory D
\* gets the line '~S1/' + its path relative to the storage root.
C6_LinesRelativeToStorageRoot ==
    \A w \in Workers : \A v \in DirPaths(node) :
        (ListedDir(w, v) /\ Len(Listing(w)) < BUFFER_SIZE - 1) =>
            \A p \in OwnedBeneath(fs, Resolve(fs, RootPlus(v)).at) :
                VPath(SubSeq(p, Len(RootDir(node)) + 1, Len(p))) \in Range(ListingLines(w))

\* the line l is '~S1/' + the path, relative to the directory d, of a
\* regular file whose name ends in the owned extension
NamesOwnedFile(l, d) ==
    /\ Len(l) > Len(MARKER) + 1
    /\ Take(l, Len(MARKER) + 1) = MARKER \o <<"/">>
    /\ d \o StrTok(Drop(l, Len(MARKER) + 1), "/") \in OwnedBeneath(fs, d)

\* C7 as stated: every line of every reply, cut at the ceiling or not, names
\* a regular file with the owned extension; no matching file, empty reply.
C7_AsStated ==
    \A w \in Workers : \A v \in DirPaths(node) :
        ListedDir(w, v) =>
            LET d == Resolve(fs, RootPlus(v)).at
            IN /\ \A l \in Range(ListingLines(w)) : NamesOwnedFile(l, d)
               /\ OwnedBeneath(fs, d) = {} => out[w] = <<>>

\* the lines of the listing that end in a newline, and what follows them
CompleteLines(s) ==
    LET ls == StrTok(s, "\n")
    IN IF s # <<>> /\ s[Len(s)] # "\n" THEN SubSeq(ls, 1, Len(ls) - 1) ELSE ls

CutLine(s) ==
    LET ls == StrTok(s, "\n")
    IN IF s # <<>> /\ s[Len(s)] # "\n" THEN ls[Len(ls)] ELSE <<>>

\* C7 amended: every newline-terminated line of every reply names a regular
\* file with the owned extension (by its path relative to the listed
\* directory); text after the last newline appears only in a reply cut at
\* BUFFER_SIZE-1 bytes and is the beginning of such a line; no matching
\* file, empty reply and no error text.
C7_CompleteLinesNameOwnedFiles ==
    \A w \in Workers : \A v \in DirPaths(node) :
        ListedDir(w, v) =>
            LET d == Resolve(fs, RootPlus(v)).at
                cut == CutLine(Listing(w))
            IN /\ \A l \in Range(CompleteLines(Listing(w))) : NamesOwnedFile(l, d)
               /\ cut # <<>> =>
                    /\ Len(Listing(w)) = BUFFER_SIZE - 1
                    /\ \E p \in OwnedBeneath(fs, d) :
                         IsPrefix(cut, MARKER \o <<"/">> \o
                                       JoinWith(SubSeq(p, Len(d) + 1, Len(p)), "/"))
               /\ OwnedBeneath(fs, d) = {} => out[w] = <<>>
               /\ \A i \in 1..Len(out[w]) : out[w][i].t = "list"

\* a reply cut in the middle of a line
C7_Witness ==
    \E w \in Workers :
        /\ ListedDir(w, VPath(<<>>))
        /\ Len(Listing(w)) = BUFFER_SIZE - 1
        /\ CutLine(Listing(w)) # <<>>
        /\ Len(CompleteLines(Listing(w))) >= 2

\* C8: dispfnames on a virtual path whose local path does not exist or is
\* not a directory writes nothing and leaves the filesystem unchanged.
C8_ListingOfNoDirectoryIsEmpty ==
    \A w \in Workers : \A v \in DirPaths(node) :
        (IsDispfnames(w, v) /\ ~IsDirAt(fs0[w], RootPlus(v))) =>
            /\ out[w] = <<>>
            /\ fs = fs0[w]
            /\ pc[w] \in {"handle_client", "display_filenames", "exit"}

\* the path of a stored regular file is listed: nothing is written
C8_Witness ==
    \E w \in Workers :
        /\ Returned(w)
        /\ IsDispfnames(w, VPath(<<N_docs, N_report(node)>>))
        /\ IsFileAt(fs, RootPlus(VPath(<<N_docs, N_report(node)>>)))
        /\ peerOpen[w]
        /\ out[w] = <<>>

\* C9: removef of an existing regular file, when unlink is not denied,
\* replies success and removes exactly that file; a removef of a path
\* removed before, nothing having been created since, replies the not-found
\* error and changes nothing.
C9_RemoveThenNotFound ==
    [][\A w \in Workers : \A v \in FilePaths(node) :
        (pc[w] = "remove_file" /\ pc'[w] = "exit" /\ IsRemovef(w, v)) =>
            /\ (IsFileAt(fs, RootPlus(v)) /\ ~fault'[w]) =>
                 /\ fs' = [p \in DOMAIN fs \ {Resolve(fs, RootPlus(v)).at} |-> fs[p]]
                 /\ ~IsFileAt(fs', RootPlus(v))
                 /\ peerOpen'[w] => out'[w] = <<S_DELETED(node)>>
            /\ v \in gone =>
                 /\ fs' = fs
                 /\ peerOpen'[w] => out'[w] = <<E_NOT_FOUND(node)>>]_vars

\* the second removef of the same path has replied not-found
C9_Witness ==
    \E w \in Workers : \E v \in FilePaths(node) :
        /\ Returned(w)
        /\ IsRemovef(w, v)
        /\ v \in gone
        /\ IsFileAt(FsDocs(node), RootPlus(v))
        /\ out[w] = <<E_NOT_FOUND(node)>>
        /\ fs = fs0[w]

\* the lines that name no command of the node or lack a required argument
Malformed(nd) == BadLines(nd) \cup (IF nd = "S4" THEN {K_downltar} ELSE {})

\* C10: a command line whose first token is not a command of the node, or
\* that lacks a required argument, calls no handler, leaves the filesystem
\* unchanged and gets one error text, which is the whole reply a peer that is
\* still connected receives.
C10_MalformedCommandRejected ==
    \A w \in Workers :
        (line[w] \in Malformed(node) /\ pc[w] \notin {"free", "handle_client", "exited"}) =>
            /\ Returned(w)
            /\ handler[w] = "none"
            /\ fs = fs0[w]
            /\ out[w] = IF peerOpen[w] THEN <<Dispatch(node, line[w]).reply[1]>> ELSE <<>>
            /\ Dispatch(node, line[w]).reply[1].t = "text"
            /\ Dispatch(node, line[w]).reply[1].err

\* uploadf with a source and no destination has been rejected
C10_Witness ==
    \E w \in Workers :
        /\ Returned(w)
        /\ line[w] = JoinWith(<<K_uploadf, SrcOwn(node)>>, " ")
        /\ out[w] = <<E_UPLOADF_FORMAT>>
        /\ handler[w] = "none"

\* the worker's stat() has seen the archive its tar command built
BuiltArchive(w) == handler[w] = "download_tar" /\ loc[w].st_size > 0

\* C11: when a downltar worker that created /tmp/pdffiles.tar has finished
\* the command, on the success path and on every failure path, the archive
\* is no longer there.
C11_ArchiveDeletedWhenFinished ==
    \A w \in Workers :
        (Returned(w) /\ BuiltArchive(w)) => StatErr(fs, TAR_PATH) # "OK"

\* ---------------------------------------------------------------- liveness
\* the scheduler runs the acceptor whenever it can run: its waitpid() loop
\* is taken once it is reached; accept() returns only when a connection
\* arrives, which nothing promises
SpecLive == Spec /\ WF_vars(Reap)

\* C12: every worker that terminates eventually has its exit status
\* collected by the acceptor, whether or not further connections arrive.
C12_ExitedWorkersAreReaped ==
    \A w \in Workers : (pc[w] = "exited") ~> (pc[w] = "free")

\* ---------------------------------------------------- one command a worker
\* the child process w has been forked and has not terminated
Running(w) == pc[w] \notin {"free", "exited"}

\* how far a worker is from its end: the statements left on its path, and
\* within a loop the turns the loop has left
Stage(w) ==
    CASE pc[w] \in {"free", "exited"} -> 0
      [] pc[w] = "exit" -> 1
      [] pc[w] \in {"rename", "send_data", "tar_data", "remove_file",
                    "display_filenames"} -> 2
      [] pc[w] \in {"create_directory_tree", "send_size", "tar_size"} -> 3
      [] pc[w] \in {"upload_file", "open", "tar_open"} -> 4
      [] pc[w] \in {"download_file", "tar_stat"} -> 5
      [] pc[w] = "download_tar" -> 6
      [] pc[w] = "handle_client" -> 7

Turns(w) ==
    CASE pc[w] = "create_directory_tree" -> Len(loc[w].s2_path) + 2 - loc[w].p
      [] pc[w] \in {"send_data", "tar_data"} -> loc[w].remaining
      [] OTHER -> 0

\* C13: each accepted connection is handled by exactly one worker, forked
\* for it; the worker reads one command, calls at most one handler, is never
\* back at the read and gets closer to its end with every step, the last of
\* which is its exit; the acceptor alternates between
\* accept() and its waitpid() loop and never leaves them (accept and fork
\* do not fail here).
C13_OneCommandPerWorker ==
    /\ [](/\ apc \in {"accept", "waitpid"}
          /\ \A w \in Workers : Running(w) => w <= nconn
          /\ \A w \in Workers : w > nconn => pc[w] = "free")
    /\ [][/\ nconn' # nconn =>
               /\ apc = "accept" /\ apc' = "waitpid" /\ nconn' = nconn + 1
               /\ \A w \in Workers :
                      pc'[w] # pc[w] <=> w = nconn'
               /\ pc'[nconn'] = "handle_client"
          /\ \A w \in Workers :
               /\ (pc'[w] = "handle_client" /\ pc[w] # "handle_client")
                      => nconn' # nconn
               /\ (Running(w) /\ <<pc[w], loc[w]>> # <<pc'[w], loc'[w]>>) =>
                      \/ Stage(w)' < Stage(w)
                      \/ Stage(w)' = Stage(w) /\ Turns(w)' < Turns(w) /\ Turns(w)' >= 0
               /\ (Running(w) /\ handler[w] # "none") =>
                      handler'[w] \in {handler[w], "none"} /\ pc'[w] # "handle_client"
               /\ (pc[w] = "exit" /\ pc'[w] # pc[w]) => pc'[w] = "exited"]_vars

\* the second connection's worker has run its one handler and returned, and
\* the acceptor is back in accept()
C13_Witness ==
    /\ nconn = 2
    /\ apc = "accept"
    /\ pc[2] = "exit"
    /\ handler[2] = "remove_file"
    /\ pc[1] \in {"free", "exited"}

\* ------------------------------------------------------- path translation
PathHandlers == {"upload_file", "download_file", "remove_file", "display_filenames"}

\* the virtual path among the arguments of the handler of worker w
PathArg(w) == IF handler[w] = "upload_file" THEN loc[w].dest_path ELSE loc[w].filename

\* worker w has computed the local path of a virtual path "~S1" + S
Translated(w) ==
    /\ handler[w] \in PathHandlers
    /\ loc[w].s2_path # <<>>
    /\ Take(PathArg(w), 3) = MARKER

\* C14: uploadf (destination), downlf, removef and dispfnames all access
\* LocalPath = storageRoot + S for the virtual path "~S1" + S, the bare
\* marker giving exactly storageRoot.
C14_SamePathInEveryOperation ==
    \A w \in Workers :
        Translated(w) => loc[w].s2_path = StorageRoot(node) \o Drop(PathArg(w), 3)

\* the file an absolute path names in filesystem f lies in the storage root
UnderRoot(f, s) ==
    Resolve(f, s).err = "OK" => IsPrefix(RootDir(node), Resolve(f, s).at)

\* C15: for every virtual path that begins with the root marker, ".."
\* segments included, the path a worker accesses names a file under the
\* storage root, and whatever the worker deletes or creates for the
\* destination lies under the storage root.
C15_NothingOutsideStorageRoot ==
    \A w \in Workers :
        Translated(w) =>
            /\ UnderRoot(fs0[w], loc[w].s2_path)
            /\ \A p \in DOMAIN fs0[w] \ DOMAIN fs :
                   handler[w] = "remove_file" => IsPrefix(RootDir(node), p)
            /\ \A p \in DOMAIN fs \ DOMAIN fs0[w] : IsPrefix(RootDir(node), p)


\* ------------------------------------------------------------ error replies
\* the last segment the client received from w is an error text
EndsInErrorText(w) ==
    /\ out[w] # <<>>
    /\ out[w][Len(out[w])].t = "text"
    /\ out[w][Len(out[w])].err
    /\ out[w][Len(out[w])].n > 0

\* C16 as stated: a command on which a system call failed is answered with a
\* non-empty error text before the connection closes, and the only finished
\* command with an empty reply is a dispfnames that found nothing to list.
C16_FailuresReplyErrorText ==
    \A w \in Workers :
        (Returned(w) /\ peerOpen[w]) =>
            /\ fault[w] => EndsInErrorText(w)
            /\ out[w] = <<>> =>
                 /\ handler[w] = "display_filenames"
                 /\ \A ord \in DirOrders(node) :
                      FileList(fs0[w], node, ord, loc[w].s2_path) = <<>>


\* ------------------------------------------------------- failed transfers
RECURSIVE Bytes(_)
Bytes(segs) == IF segs = <<>> THEN 0 ELSE Head(segs).n + Bytes(Tail(segs))

\* C17 as stated: once downlf has written the size count N, everything the
\* worker writes after it is file content, at most N bytes of it; a read or
\* write failure in the middle of the transfer writes nothing more.
C17_NoBytesAfterFailedTransfer ==
    \A w \in Workers :
        (handler[w] = "download_file" /\ out[w] # <<>> /\ out[w][1].t = "size") =>
            /\ \A i \in 2..Len(out[w]) : out[w][i].t = "data"
            /\ Bytes(Tail(out[w])) <= out[w][1].v


\* ------------------------------------------------------- directory creation
\* s and every proper prefix of s that ends before a '/' is a directory of f
AllDirs(f, s) ==
    /\ IsDirAt(f, s)
    /\ \A i \in 2..Len(s) : s[i] = "/" => IsDirAt(f, Take(s, i - 1))

\* C18 as stated: create_directory_tree returns success (upload_file goes on
\* to rename()) only if its path and every ancestor segment are directories
\* at that moment; when it returns failure upload_file replies the
\* directory-creation error.
C18_TreeSuccessMeansDirectories ==
    [][\A w \in Workers :
         pc[w] = "create_directory_tree" =>
            /\ pc'[w] = "rename" => AllDirs(fs', loc[w].s2_path)
            /\ (pc'[w] = "exit" /\ peerOpen'[w]) =>
                  out'[w] = Append(out[w], E_CREATE_DIRECTORY)]_vars


\* ------------------------------------------------------------- idempotence
\* the end of the segment of tmp that starts at p: the next '/' or the end
SegEnd(tmp, p) ==
    LET slashes == {i \in p..Len(tmp) : tmp[i] = "/"}
    IN IF slashes = {} THEN Len(tmp) + 1 ELSE SetMin(slashes)

\* (fault) an existing segment is a failure as well
RECURSIVE create_directory_tree_strict(_, _, _, _)
create_directory_tree_strict(f, ro, tmp, p) ==
    LET q == SegEnd(tmp, p)
        dir == Take(tmp, q - 1)
        err == IF MkdirErr(f, dir) = "OK" /\ Resolve(f, dir).at \in ro
               THEN "EACCES" ELSE MkdirErr(f, dir)
        g == IF err = "OK" THEN MkdirFs(f, dir) ELSE f
    IN IF err # "OK" THEN [ret |-> -1, fs |-> g]
       ELSE IF q > Len(tmp) THEN [ret |-> 0, fs |-> g]
       ELSE create_directory_tree_strict(g, ro, tmp, q + 1)

\* create_directory_tree as a function: the return value and the filesystem
\* left by the mkdir() calls from position p of tmp on, where mkdir() is
\* refused (EACCES) for the directories ro
RECURSIVE create_directory_tree(_, _, _, _)
create_directory_tree(f, ro, tmp, p) ==
    LET q == SegEnd(tmp, p)
        dir == Take(tmp, q - 1)
        err == IF MkdirErr(f, dir) = "OK" /\ Resolve(f, dir).at \in ro
               THEN "EACCES" ELSE MkdirErr(f, dir)
        g == IF err = "OK" THEN MkdirFs(f, dir) ELSE f
    IN IF err \notin {"OK", "EEXIST"} THEN [ret |-> -1, fs |-> g]
       ELSE IF q > Len(tmp) THEN [ret |-> 0, fs |-> g]
       ELSE create_directory_tree(g, ro, tmp, q + 1)

\* the first position after the leading slash
TreeStart(tmp) == IF tmp[1] = "/" THEN 2 ELSE 1

\* the directory whose mkdir() was refused in the step, if any
Refused(w) ==
    LET dir == Take(loc[w].s2_path, SegEnd(loc[w].s2_path, loc[w].p) - 1)
    IN IF pc'[w] = "exit" /\ MkdirErr(fs, dir) = "OK"
       THEN {Resolve(fs, dir).at} ELSE {}

\* C19: create_directory_tree is idempotent and works from the root towards
\* the leaf.  Every mkdir() step of a call leaves the outcome of the call
\* unchanged, moves to a later segment, and creates at most the directory
\* named by the prefix of the path that ends at the current segment; when
\* the call returns, a second call on the same path returns the same value
\* and leaves the filesystem as the first call left it.
C19_TreeIdempotent ==
    [][\A w \in Workers :
         (pc[w] = "create_directory_tree" /\ <<pc'[w], loc'[w]>> # <<pc[w], loc[w]>>) =>
            LET tmp == loc[w].s2_path
                once == create_directory_tree(fs, Refused(w), tmp, loc[w].p)
                twice == create_directory_tree(fs', Refused(w), tmp, TreeStart(tmp))
            IN /\ DOMAIN fs' \ DOMAIN fs \subseteq
                     {Resolve(fs, Take(tmp, SegEnd(tmp, loc[w].p) - 1)).at}
               /\ \A d \in DOMAIN fs : fs'[d] = fs[d]
               /\ pc'[w] = "create_directory_tree" =>
                     /\ loc'[w].p > loc[w].p
                     /\ create_directory_tree(fs', {}, tmp, loc'[w].p) = once
               /\ pc'[w] # "create_directory_tree" =>
                     /\ once = [ret |-> IF pc'[w] = "rename" THEN 0 ELSE -1, fs |-> fs']
                     /\ twice = once]_vars

\* a call that created two directories has returned success
C19_Witness ==
    \E w \in Workers :
        /\ pc[w] = "rename"
        /\ Cardinality(DOMAIN fs \ DOMAIN fs0[w]) >= 2

\* a call that created a directory and then failed has returned failure
C19_WitnessFailure ==
    \E w \in Workers :
        /\ pc[w] = "exit"
        /\ handler[w] = "upload_file"
        /\ DOMAIN fs # DOMAIN fs0[w]
        /\ peerOpen[w]
        /\ out[w] = <<E_CREATE_DIRECTORY>>


\* ------------------------------------------------------ concurrent archives
\* Workers are processes of their own: with several connections open at
\* once their steps interleave, and the steps of the tar process that
\* system() runs interleave with them.  An archive file carries the number
\* of its inode; a descriptor is a view of its inode that every write to
\* the inode updates, whether or not a path still names it.
ArchNode(id, len, ino) == [kind |-> "file", id |-> id, len |-> len, ino |-> ino]

SameInode(fd, i) == "ino" \in DOMAIN fd /\ fd.ino = i

\* the descriptors after the inode i has been given the content nd
Rewritten(i, nd) ==
    [v \in Workers |-> IF SameInode(loc[v].fd, i) THEN [loc[v] EXCEPT !.fd = nd]
                       ELSE loc[v]]

\* tar -cf /tmp/pdffiles.tar: open(O_WRONLY | O_CREAT | O_TRUNC) of the
\* archive, which empties the file a path names or creates a new one
TarOpenArchive(w) ==
    /\ pc[w] = "download_tar"
    /\ LET at == Resolve(fs, TAR_PATH).at
           tarerr == Resolve(fs, TAR_PATH).err # "OK" \/ IsDir(fs, at)
       IN \E failed \in BOOLEAN :
            /\ fault' = [fault EXCEPT ![w] = @ \/ failed]
            /\ IF failed \/ tarerr
               THEN /\ fs' = fs
                    /\ gone' = gone
                    /\ lastUp' = lastUp
                    /\ loc' = loc
                    /\ Return(w, <<E_CREATE_TAR>>)
               ELSE LET i == IF Exists(fs, at) THEN fs[at].ino ELSE w
                        empty == ArchNode(0, 0, i)
                    IN /\ fs' = [p \in DOMAIN fs \cup {at} |->
                                    IF p = at THEN empty ELSE fs[p]]
                       /\ gone' = {}
                       /\ lastUp' = NoUp
                       /\ loc' = [Rewritten(i, empty) EXCEPT ![w].fd = empty]
                       /\ pc' = [pc EXCEPT ![w] = "tar_write"]
                       /\ UNCHANGED <<out, peerOpen>>
    /\ UNCHANGED <<node, apc, nconn, line, status, handler, fs0>>

\* tar writes the members that find names into its archive and closes it;
\* system() returns 0
TarWriteArchive(w) ==
    /\ pc[w] = "tar_write"
    /\ LET files == FindFiles(fs, node)
           at == Resolve(fs, TAR_PATH).at
           i == loc[w].fd.ino
           full == ArchNode(TarId(fs, files), TarLen(fs, files), i)
       IN /\ fs' = [p \in DOMAIN fs |->
                       IF p = at /\ SameInode(fs[p], i) THEN full ELSE fs[p]]
          /\ loc' = [Rewritten(i, full) EXCEPT ![w].fd = NoFd]
    /\ pc' = [pc EXCEPT ![w] = "tar_stat"]
    /\ UNCHANGED <<node, apc, nconn, line, peerOpen, out, status, handler,
                   fault, fs0, gone, lastUp>>

\* the commands are downltar only, and a connection is accepted whenever the
\* acceptor is in accept(), other workers running or not
NextConc ==
    \/ \E w \in Workers : Accept(w, K_downltar)
    \/ Reap
    \/ \E w \in Workers : PeerReset(w)
    \/ \E w \in Workers : HandleClient(w)
    \/ \E w \in Workers : HandleClientReadError(w)
    \/ \E w \in Workers : TarOpenArchive(w)
    \/ \E w \in Workers : TarWriteArchive(w)
    \/ \E w \in Workers : DownloadTarStat(w)
    \/ \E w \in Workers : DownloadTarOpen(w)
    \/ \E w \in Workers : DownloadTarSendSize(w)
    \/ \E w \in Workers : DownloadTarSendfile(w)
    \/ \E w \in Workers : DownloadTarUnlink(w)
    \/ \E w \in Workers : Exit(w)

SpecConc == Init /\ [][NextConc]_vars

\* the archive of the stored files: what a tar command run alone builds
OwnArchive == FileNode(TarId(fs, FindFiles(fs, node)), TarLen(fs, FindFiles(fs, node)))

\* C20 as stated: a downltar worker that has written a count, with no system
\* call of its own failing and its peer connected, has sent one frame: the
\* size of the archive it built and exactly the bytes of that archive,
\* whatever other downltar workers do to /tmp/pdffiles.tar meanwhile.
C20_ConcurrentArchivesIndependent ==
    \A w \in Workers :
        (/\ Returned(w)
         /\ handler[w] = "download_tar"
         /\ peerOpen[w]
         /\ ~fault[w]
         /\ out[w] # <<>>
         /\ out[w][1].t = "size") => IsFrameOf(out[w], OwnArchive)


\* ------------------------------------------------- racing on a stored file
\* the stored file P, and the commands of concurrent connections that read,
\* replace and delete it
V_race(nd) == VPath(<<N_docs, N_report(nd)>>)

RaceLines(nd) ==
    {JoinWith(<<K_downlf, V_race(nd)>>, " "),
     JoinWith(<<K_uploadf, SrcOwn(nd), VPath(<<N_docs>>)>>, " "),
     JoinWith(<<K_removef, V_race(nd)>>, " ")}

\* a connection is accepted whenever the acceptor is in accept(), other
\* workers running or not; an open descriptor keeps the file it was opened
\* on, which rename() and unlink() replace or detach and never rewrite
NextRace ==
    \/ \E w \in Workers : \E l \in RaceLines(node) : Accept(w, l)
    \/ Reap
    \/ \E w \in Workers : PeerReset(w)
    \/ \E w \in Workers : HandleClient(w)
    \/ \E w \in Workers : HandleClientReadError(w)
    \/ \E w \in Workers : UploadFile(w)
    \/ \E w \in Workers : CreateDirectoryTree(w)
    \/ \E w \in Workers : UploadRename(w)
    \/ \E w \in Workers : DownloadStat(w)
    \/ \E w \in Workers : DownloadOpen(w)
    \/ \E w \in Workers : DownloadSendSize(w)
    \/ \E w \in Workers : DownloadChunk(w)
    \/ \E w \in Workers : DownloadDone(w)
    \/ \E w \in Workers : RemoveFile(w)
    \/ \E w \in Workers : Exit(w)

SpecRace == Init /\ [][NextRace]_vars

\* the regular files there were when the command of w arrived: the stored
\* version of P and the staged version an uploadf moves to P
VersionsAt(w) == {fs0[w][p] : p \in {q \in DOMAIN fs0[w] : IsReg(fs0[w], q)}}

\* C21 as stated: a downlf of P that has finished with bytes sent and no
\* error text, while uploadf and removef workers replace and delete P, has
\* delivered one frame: the size and the whole content of one version of
\* the file.
C21_DownloadDeliversOneVersion ==
    \A w \in Workers :
        (/\ Returned(w)
         /\ IsDownlf(w, V_race(node))
         /\ peerOpen[w]
         /\ out[w] # <<>>
         /\ \A i \in 1..Len(out[w]) : out[w][i].t # "text") =>
            \E data \in VersionsAt(w) : IsFrameOf(out[w], data)


\* ------------------------------------------------------- listing ceiling
\* the lines of the traversal of list_pdf_files / list_zip_files, one for
\* every matching file in the order the files are met, with no buffer to fill
RECURSIVE all_files(_, _, _, _, _)
RECURSIVE all_entries(_, _, _, _, _, _, _)
all_entries(f, ext, ord, d, base_path, relative_path, ents) ==
    IF ents = <<>> THEN <<>>
    ELSE LET d_name == Head(ents)
             full_path == Snprintf(MAX_PATH_LEN, base_path \o <<"/">> \o d_name)
             new_relative_path ==
                 IF relative_path = <<>> THEN Snprintf(MAX_PATH_LEN, d_name)
                 ELSE Snprintf(MAX_PATH_LEN, relative_path \o <<"/">> \o d_name)
             here ==
                 IF d_name = <<".">> \/ d_name = <<".", ".">> THEN <<>>
                 ELSE IF IsReg(f, d \o <<d_name>>)
                 THEN IF ListExtOk(d_name, ext)
                      THEN <<OutputPath(new_relative_path)>>
                      ELSE <<>>
                 ELSE all_files(f, ext, ord, full_path, new_relative_path)
         IN here \o all_entries(f, ext, ord, d, base_path, relative_path, Tail(ents))

all_files(f, ext, ord, base_path, relative_path) ==
    LET d == Resolve(f, base_path).at
    IN IF StatErr(f, base_path) # "OK" \/ ~IsDir(f, d) THEN <<>>
       ELSE all_entries(f, ext, ord, d, base_path, relative_path, ReadDir(f, d, ord))

\* the first k lines, each with its newline, as one string
RECURSIVE FullListing(_, _)
FullListing(lines, k) ==
    IF k = 0 THEN <<>> ELSE FullListing(lines, k - 1) \o lines[k] \o <<"\n">>

\* file_list after the first k matching files
RECURSIVE Accumulated(_, _)
Accumulated(lines, k) ==
    IF k = 0 THEN <<>> ELSE AppendLine(Accumulated(lines, k - 1), lines[k])

\* a directory has been listed and its traversal has read every directory
Listed(w) ==
    /\ Returned(w)
    /\ handler[w] = "display_filenames"
    /\ peerOpen[w]
    /\ ~fault[w]
    /\ IsDirAt(fs, loc[w].s2_path)

\* C22: the dispfnames reply never exceeds BUFFER_SIZE-1 bytes.  After every
\* matching file of the traversal the accumulated listing fits the buffer
\* with its terminator and is the first BUFFER_SIZE-1 bytes of the lines met
\* so far, and the reply is the first BUFFER_SIZE-1 bytes of the full
\* listing, in the order of the traversal.
C22_ListingWithinCeiling ==
    \A w \in Workers :
        /\ handler[w] = "display_filenames" => Len(Listing(w)) <= BUFFER_SIZE - 1
        /\ Listed(w) =>
             \E ord \in DirOrders(node) :
                LET lines == all_files(fs, Ext(node), ord, loc[w].s2_path, <<>>)
                IN /\ \A k \in 0..Len(lines) :
                        /\ Len(Accumulated(lines, k)) + 1 <= BUFFER_SIZE
                        /\ Accumulated(lines, k) =
                              Take(FullListing(lines, k), BUFFER_SIZE - 1)
                   /\ Listing(w) = Take(FullListing(lines, Len(lines)), BUFFER_SIZE - 1)

\* the full listing is longer than the ceiling: the reply is cut
C22_Witness ==
    \E w \in Workers :
        /\ Listed(w)
        /\ Len(Listing(w)) = BUFFER_SIZE - 1
        /\ \A ord \in DirOrders(node) :
              LET lines == all_files(fs, Ext(node), ord, loc[w].s2_path, <<>>)
              IN Len(FullListing(lines, Len(lines))) > BUFFER_SIZE


\* --------------------------------------------------------- the two nodes
\* The node of s2.c runs one command; then the node of part_000 runs the
\* same command on the same filesystem, both with the owned extension and
\* the storage root swapped.  Worker 1 is the worker of the first node and
\* keeps its reply; worker 2 is the worker of the second.
\* pat occurs in s at position j
OccursAt(s, pat, j) ==
    /\ j >= 1
    /\ j + Len(pat) - 1 <= Len(s)
    /\ SubSeq(s, j, j + Len(pat) - 1) = pat

\* s with every old replaced by new, a string of the same length
Replace(s, old, new) ==
    [i \in 1..Len(s) |->
        IF \E k \in 1..Len(old) : OccursAt(s, old, i - k + 1)
        THEN new[CHOOSE k \in 1..Len(old) : OccursAt(s, old, i - k + 1)]
        ELSE s[i]]

\* a command line with ".pdf" and "/S2" swapped for ".zip" and "/S4"
SwapStr(s) ==
    Replace(Replace(s, Ext("S2"), Ext("S4")),
            <<"/">> \o RootName("S2"), <<"/">> \o RootName("S4"))

SwapName(nm) ==
    IF nm = RootName("S2") THEN RootName("S4")
    ELSE IF EndsWith(nm, Ext("S2"))
    THEN Take(nm, Len(nm) - Len(Ext("S2"))) \o Ext("S4")
    ELSE nm

SwapPath(p) == [i \in 1..Len(p) |-> SwapName(p[i])]

SwapFs(f) ==
    [q \in {SwapPath(p) : p \in DOMAIN f} |->
        f[CHOOSE p \in DOMAIN f : SwapPath(p) = q]]

\* the second node is started on the swapped filesystem the first node's
\* command found, and receives the swapped command; fs0[1] keeps the
\* filesystem the first node has left
Twin ==
    /\ node = "S2"
    /\ apc = "accept"
    /\ nconn = 1
    /\ pc[1] = "exit"
    /\ pc[2] = "free"
    /\ node' = "S4"
    /\ fs' = SwapFs(fs0[1])
    /\ fs0' = [fs0 EXCEPT ![1] = fs, ![2] = SwapFs(fs0[1])]
    /\ apc' = "waitpid"
    /\ nconn' = 2
    /\ pc' = [pc EXCEPT ![2] = "handle_client"]
    /\ line' = [line EXCEPT ![2] = SwapStr(line[1])]
    /\ peerOpen' = [peerOpen EXCEPT ![2] = TRUE]
    /\ out' = [out EXCEPT ![2] = <<>>]
    /\ loc' = [loc EXCEPT ![2] = Loc0]
    /\ status' = [status EXCEPT ![2] = 0]
    /\ handler' = [handler EXCEPT ![2] = "none"]
    /\ fault' = [fault EXCEPT ![2] = FALSE]
    /\ gone' = {}
    /\ lastUp' = NoUp

TwinInit == Init /\ node = "S2"

NextTwin ==
    \/ \E l \in Lines("S2") : node = "S2" /\ Accept(1, l)
    \/ Twin
    \/ Reap
    \/ \E w \in Workers : PeerReset(w)
    \/ \E w \in Workers : HandleClient(w)
    \/ \E w \in Workers : HandleClientReadError(w)
    \/ \E w \in Workers : UploadFile(w)
    \/ \E w \in Workers : CreateDirectoryTree(w)
    \/ \E w \in Workers : UploadRename(w)
    \/ \E w \in Workers : DownloadStat(w)
    \/ \E w \in Workers : DownloadOpen(w)
    \/ \E w \in Workers : DownloadSendSize(w)
    \/ \E w \in Workers : DownloadChunk(w)
    \/ \E w \in Workers : DownloadDone(w)
    \/ \E w \in Workers : RemoveFile(w)
    \/ \E w \in Workers : DisplayFilenames(w)
    \/ \E w \in Workers : DownloadTar(w)
    \/ \E w \in Workers : DownloadTarStat(w)
    \/ \E w \in Workers : DownloadTarOpen(w)
    \/ \E w \in Workers : DownloadTarSendSize(w)
    \/ \E w \in Workers : DownloadTarSendfile(w)
    \/ \E w \in Workers : DownloadTarUnlink(w)
    \/ \E w \in Workers : Exit(w)

SpecTwin == TwinInit /\ [][NextTwin]_vars

\* the kind of a reply: its segments without the wording of a text and
\* without the names of a listing
SegKind(g) ==
    IF g.t = "text" THEN [g EXCEPT !.msg = ""]
    ELSE IF g.t = "list" THEN [t |-> "list"]
    ELSE g

Kind(segs) == [i \in 1..Len(segs) |-> SegKind(segs[i])]

\* both nodes have finished the command in the same environment: no system
\* call was made to fail, both peers are connected, and stat() reported the
\* same size (that of a directory is the filesystem's choice)
BothDone ==
    /\ node = "S4"
    /\ pc[1] = "exit"
    /\ pc[2] = "exit"
    /\ ~fault[1] /\ ~fault[2]
    /\ peerOpen[1] /\ peerOpen[2]
    /\ (handler[1] = "download_file" /\ handler[2] = "download_file") =>
           loc[1].st_size = loc[2].st_size

SameOutcome ==
    /\ handler[2] = handler[1]
    /\ Kind(out[2]) = Kind(out[1])
    /\ fs = SwapFs(fs0[1])

====
